---------------------------- MODULE Spec2Model ----------------------------
(***************************************************************************)
(* Model of dysk with the Lustre overlay (cli/src/lib.rs,                  *)
(* cli/src/sorting.rs) and of its library interface (src/lib.rs).          *)
(*                                                                         *)
(* SpecSort  : Sorting::sort and Sorting::sort_with_lustre applied to a    *)
(*             mount sequence drawn from bounded sets.                     *)
(* SpecParse : Sorting::from_str and Sorting::default on bounded strings.  *)
(* Spec      : one run of the command line tool (run of cli/src/lib.rs),   *)
(*             statement group by statement group.                         *)
(* SpecLib   : get_mounts and get_filtered_mounts of the library           *)
(*             (src/lib.rs) on bounded options and mount tables.           *)
(* SpecBuilder : an ArgsBuilder (src/lib.rs) from new() through a bounded  *)
(*             sequence of setter calls to build().                        *)
(* SpecEntry : the entry points of the library (src/lib.rs): run_dysk,     *)
(*             run, print_output and print_generic_table.                  *)
(***************************************************************************)
EXTENDS Integers, Sequences, FiniteSets, TLC

(***************************************************************************)
(* Bounds of the model.                                                    *)
(***************************************************************************)
\* longest mount sequence handed to a sort
MaxMounts == 4
\* largest value of a sort key (size, filesystem name, uuid, index)
MaxKey == 2
\* longest string handed to Sorting::from_str
MaxLen == 5
\* longest mount table a run reads
MaxRunMounts == 2
\* most setter calls made on one ArgsBuilder
MaxCalls == 3

(***************************************************************************)
(* Data.                                                                   *)
(***************************************************************************)
Asc == "Asc"
Desc == "Desc"
Orders == {Asc, Desc}

\* Col: two base columns and the three columns of the Lustre overlay
BaseCols == {"Filesystem", "Size"}
LustreCols == {"LustreUuid", "LustreComponent", "LustreIndex"}
Cols == BaseCols \cup LustreCols

\* LustreComponentType
ComponentTypes == {"MDT", "OST", "Client", "Unknown"}

\* Option::None of an integer field (stats of a mount, component_index)
NoneInt == -1

\* lustre_info() of a mount the overlay knows nothing about
NoInfo == [some |-> FALSE, uuid |-> 0, component_type |-> "Unknown", component_index |-> NoneInt]

\* first .. last of a sequence, empty when first > last
Slice(s, first, last) == [i \in 1..(last - first + 1) |-> s[first + i - 1]]

\* slice::reverse
Reverse(s) == [i \in 1..Len(s) |-> s[Len(s) + 1 - i]]

\* Ord::cmp on integers
CmpInt(a, b) == IF a < b THEN "Less" ELSE IF a > b THEN "Greater" ELSE "Equal"

\* Col::comparator: Filesystem by name, Size by the size of the stats, a
\* mount without stats being less than any mount with stats; a column of the
\* overlay has no key in the mount itself, so all mounts tie
comparator(col, a, b) ==
    IF col = "Filesystem" THEN CmpInt(a.fs, b.fs)
    ELSE IF col \in LustreCols THEN "Equal"
    ELSE IF a.size # NoneInt /\ b.size # NoneInt THEN CmpInt(a.size, b.size)
    ELSE IF a.size # NoneInt THEN "Greater"
    ELSE IF b.size # NoneInt THEN "Less"
    ELSE "Equal"

\* MountLustreExt::lustre_info: the overlay's record of a mount, by identity
lustre_info(m, data) ==
    IF m.id \in DOMAIN data.table THEN data.table[m.id] ELSE NoInfo

\* the rank a LustreComponentType sorts by
component_order(ct) ==
    CASE ct = "MDT" -> 0
      [] ct = "OST" -> 1
      [] ct = "Client" -> 2
      [] OTHER -> 3

\* a comparator that forgets to put the records without overlay data last
lustre_comparator_none_first(col, ai, bi) ==
    IF ai.some /\ bi.some THEN
        CASE col = "LustreUuid" -> CmpInt(ai.uuid, bi.uuid)
          [] col = "LustreComponent" ->
                CmpInt(component_order(ai.component_type), component_order(bi.component_type))
          [] OTHER -> CmpInt(ai.component_index, bi.component_index)
    ELSE IF ai.some THEN "Greater"
    ELSE IF bi.some THEN "Less"
    ELSE "Equal"

\* the closure sort_with_lustre hands to sort_by, on the two lookups
lustre_comparator(col, ai, bi) ==
    IF ai.some /\ bi.some THEN
        CASE col = "LustreUuid" -> CmpInt(ai.uuid, bi.uuid)
          [] col = "LustreComponent" ->
                CmpInt(component_order(ai.component_type), component_order(bi.component_type))
          [] col = "LustreIndex" ->
                IF ai.component_index # NoneInt /\ bi.component_index # NoneInt
                THEN CmpInt(ai.component_index, bi.component_index)
                ELSE IF ai.component_index # NoneInt THEN "Less"
                ELSE IF bi.component_index # NoneInt THEN "Greater"
                ELSE "Equal"
          [] OTHER -> "unreachable"
    ELSE IF ai.some THEN "Less"
    ELSE IF bi.some THEN "Greater"
    ELSE "Equal"

\* the closure handed to sort_by: Col::comparator (how = "col"), or the
\* closure of sort_with_lustre over the overlay (how = "lustre")
Compare(how, col, data, a, b) ==
    IF how = "lustre"
    THEN lustre_comparator(col, lustre_info(a, data), lustre_info(b, data))
    ELSE comparator(col, a, b)

\* an insertion that drops x when an element compares equal to it
RECURSIVE InsertSortedDedup(_, _, _, _, _)
InsertSortedDedup(how, col, data, x, s) ==
    IF s = << >> THEN << x >>
    ELSE IF Compare(how, col, data, Head(s), x) = "Greater" THEN << x >> \o s
    ELSE IF Compare(how, col, data, Head(s), x) = "Equal" THEN s
    ELSE << Head(s) >> \o InsertSortedDedup(how, col, data, x, Tail(s))

\* slice::sort_by, a stable sort: x goes behind every element that is not
\* greater than it
RECURSIVE InsertSorted(_, _, _, _, _)
InsertSorted(how, col, data, x, s) ==
    IF s = << >> THEN << x >>
    ELSE IF Compare(how, col, data, Head(s), x) = "Greater" THEN << x >> \o s
    ELSE << Head(s) >> \o InsertSorted(how, col, data, x, Tail(s))

RECURSIVE sort_by(_, _, _, _)
sort_by(how, col, data, s) ==
    IF s = << >> THEN << >>
    ELSE InsertSorted(how, col, data, s[Len(s)],
                      sort_by(how, col, data, Slice(s, 1, Len(s) - 1)))

\* a descending sort made with the negated comparator instead of a reversal
RECURSIVE InsertSortedDesc(_, _, _)
InsertSortedDesc(col, x, s) ==
    IF s = << >> THEN << x >>
    ELSE IF comparator(col, Head(s), x) = "Less" THEN << x >> \o s
    ELSE << Head(s) >> \o InsertSortedDesc(col, x, Tail(s))

RECURSIVE sort_by_desc(_, _)
sort_by_desc(col, s) ==
    IF s = << >> THEN << >>
    ELSE InsertSortedDesc(col, s[Len(s)], sort_by_desc(col, Slice(s, 1, Len(s) - 1)))

sort_negated(sorting, ms) ==
    IF sorting.order = Desc THEN sort_by_desc(sorting.col, ms)
    ELSE sort_by("col", sorting.col, << >>, ms)

\* Sorting::sort
sort(sorting, ms) ==
    LET sorted == sort_by("col", sorting.col, << >>, ms)
    IN  IF sorting.order = Desc THEN Reverse(sorted) ELSE sorted

\* Sorting::sort_with_lustre
sort_with_lustre(sorting, ms, data) ==
    LET sorted == IF sorting.col \in LustreCols
                  THEN sort_by("lustre", sorting.col, data, ms)
                  ELSE sort(sorting, ms)
    IN  IF sorting.order = Desc THEN Reverse(sorted) ELSE sorted

(***************************************************************************)
(* The sort directive as text.  A string is a sequence of characters.      *)
(***************************************************************************)
\* the characters of the model: the letters of the names below, '-' and ' '
Chars == {"f", "s", "i", "z", "e", "a", "d", "c", "-", " "}

\* c.is_whitespace() || *c == '-'
is_separator(c) == c = " " \/ c = "-"

\* Col::default_sort_col and Col::default_sort_order
default_sort_col == "Size"
default_sort_order(col) == IF col = "Size" THEN Desc ELSE Asc

\* Col::from_str: Ok(col) for a name of the registry, Err otherwise
ColFromStr(s) ==
    IF s = << "f", "s" >> THEN [ok |-> TRUE, col |-> "Filesystem"]
    ELSE IF s = << "s", "i", "z", "e" >> THEN [ok |-> TRUE, col |-> "Size"]
    ELSE [ok |-> FALSE, col |-> "Size"]

\* whether s is a prefix of t that is not empty
IsPrefix(s, t) == Len(s) >= 1 /\ Len(s) <= Len(t) /\ s = Slice(t, 1, Len(s))

\* Order::from_str: asc, desc or an abbreviation of one of them
OrderFromStr(s) ==
    IF IsPrefix(s, << "a", "s", "c" >>) THEN [ok |-> TRUE, order |-> Asc]
    ELSE IF IsPrefix(s, << "d", "e", "s", "c" >>) THEN [ok |-> TRUE, order |-> Desc]
    ELSE [ok |-> FALSE, order |-> Asc]

\* a search for the last separator instead of the first
RECURSIVE find_cut_last(_, _)
find_cut_last(s, i) ==
    IF i > Len(s) THEN 0
    ELSE LET later == find_cut_last(s, i + 1)
         IN  IF later # 0 THEN later
             ELSE IF is_separator(s[i]) THEN i
             ELSE 0

\* s.char_indices().find(..): the place of the first separator at or after
\* i, 0 when there is none
RECURSIVE find_cut(_, _)
find_cut(s, i) ==
    IF i > Len(s) THEN 0
    ELSE IF is_separator(s[i]) THEN i
    ELSE find_cut(s, i + 1)

\* the cut of from_str: the column text and, behind one separator, the order
\* text
split(s) ==
    LET idx == find_cut(s, 1)
    IN  IF idx # 0
        THEN [s_col |-> Slice(s, 1, idx - 1), has_order |-> TRUE,
              s_order |-> Slice(s, idx + 1, Len(s))]
        ELSE [s_col |-> s, has_order |-> FALSE, s_order |-> << >>]

\* an order that is always Asc when the text names none
absent_order_asc(col) == Asc

\* the order from_str gives a directive whose text names none
absent_order(col) == default_sort_order(col)

\* <Sorting as FromStr>::from_str: the result and the two texts it was cut into
from_str(s) ==
    LET cut == split(s)
        col == ColFromStr(cut.s_col)
        order == IF cut.has_order THEN OrderFromStr(cut.s_order)
                 ELSE [ok |-> TRUE, order |-> absent_order(col.col)]
    IN  [ok |-> col.ok /\ order.ok,
         col |-> col.col,
         order |-> order.order,
         s_col |-> cut.s_col,
         has_order |-> cut.has_order,
         s_order |-> cut.s_order]

\* <Sorting as Default>::default
default_sorting ==
    [ok |-> TRUE,
     col |-> default_sort_col,
     order |-> default_sort_order(default_sort_col),
     s_col |-> << >>,
     has_order |-> FALSE,
     s_order |-> << >>]

(***************************************************************************)
(* State.                                                                  *)
(***************************************************************************)
VARIABLES
    raw,          \* the text handed to Sorting::from_str
    parsed,       \* what from_str or default returned
    mounts,       \* the mount sequence a sort works on, in place
    before,       \* the sequence as it was handed to the sort
    sorting,      \* the Sorting directive: col and order
    lustre_data,  \* the overlay: is_available and the table by mount id
    called,       \* which operation has been applied, none at first
    args,         \* the options of the run, each drawn when the run first reads it;
                  \* the Args an ArgsBuilder holds
    pc,           \* the statement group the run is at, or how it ended
    log,          \* the calls the run has made, in order
    stdout,       \* what has been written to the standard output, in order
    stderr,       \* the messages written to the standard error, in order
    sys,          \* what the system answers a library call: mount table, metadata
    result        \* what the library call returned; the Args build() returned

vars == << raw, parsed, mounts, before, sorting, lustre_data, called,
           args, pc, log, stdout, stderr, sys, result >>

sortVars == << mounts, before, sorting, lustre_data >>
parseVars == << raw, parsed >>
runVars == << args, pc, log, stdout, stderr >>
libVars == << sys, result >>

\* Args before any option has been read
ArgsUnread ==
    [version |-> FALSE, help |-> FALSE, list_cols |-> FALSE, all |-> FALSE,
     lustre |-> FALSE, lustre_only |-> FALSE, lustre_components |-> FALSE,
     path |-> FALSE,
     sort |-> [col |-> default_sort_col, order |-> default_sort_order(default_sort_col)],
     filter |-> [some |-> FALSE, min |-> 0, fails |-> FALSE],
     csv |-> FALSE, json |-> FALSE]

\* the variables of the library calls, at rest
LibIdle ==
    /\ sys = [read_ok |-> TRUE, table |-> << >>, metadata_ok |-> TRUE, dev |-> 1]
    /\ result = [ok |-> TRUE, mounts |-> << >>]

\* the variables of a run, at rest
RunIdle ==
    /\ args = ArgsUnread
    /\ pc = "idle"
    /\ log = << >>
    /\ stdout = << >>
    /\ stderr = << >>

\* the variables of the sorts, at rest
SortIdle ==
    /\ mounts = << >>
    /\ before = << >>
    /\ sorting = [col |-> default_sort_col, order |-> default_sort_order(default_sort_col)]
    /\ lustre_data = [is_available |-> FALSE, table |-> << >>]

\* the variables of the directive parser, at rest
ParseIdle ==
    /\ raw = << >>
    /\ parsed = default_sorting

(***************************************************************************)
(* SpecSort: the two sorts as pure functions of bounded inputs.  A mount   *)
(* is identified by its id, which is its place in the input.  The fields   *)
(* that the comparator of the chosen column does not read are held at one  *)
(* value; a mount may be known to the overlay or not under every column.   *)
(***************************************************************************)
SizesOf(col) == IF col = "Size" THEN {NoneInt} \cup (1..MaxKey) ELSE {1}
FsOf(col) == IF col = "Filesystem" THEN 1..MaxKey ELSE {1}
InfosOf(col) ==
    {NoInfo} \cup
    [some : {TRUE},
     uuid : IF col = "LustreUuid" THEN 1..MaxKey ELSE {1},
     component_type : IF col = "LustreComponent" THEN ComponentTypes ELSE {"Client"},
     component_index : IF col = "LustreIndex" THEN {NoneInt} \cup (0..(MaxKey - 1)) ELSE {NoneInt}]

MountsOf(col, n) ==
    {ms \in [1..n -> [id : 1..n, fs : FsOf(col), size : SizesOf(col),
                      normal : {TRUE}, dev : {1}]] :
        \A i \in 1..n : ms[i].id = i}

SortInit ==
    \E col \in Cols, order \in Orders, n \in 0..MaxMounts :
        /\ sorting = [col |-> col, order |-> order]
        /\ mounts \in MountsOf(col, n)
        /\ before = mounts
        /\ \E table \in [1..n -> InfosOf(col)] :
              lustre_data = [is_available |-> TRUE, table |-> table]
        /\ called = "none"
        /\ ParseIdle
        /\ RunIdle
        /\ LibIdle

\* args.sort.sort(&mut mounts)
Sort ==
    /\ called = "none"
    /\ mounts' = sort(sorting, mounts)
    /\ called' = "sort"
    /\ UNCHANGED << before, sorting, lustre_data, parseVars, runVars, libVars >>

\* args.sort.sort_with_lustre(&mut mounts, &lustre_data)
SortWithLustre ==
    /\ called = "none"
    /\ mounts' = sort_with_lustre(sorting, mounts, lustre_data)
    /\ called' = "sort_with_lustre"
    /\ UNCHANGED << before, sorting, lustre_data, parseVars, runVars, libVars >>

SortNext == Sort \/ SortWithLustre

SpecSort == SortInit /\ [][SortNext]_vars

(***************************************************************************)
(* SpecParse: the directive parser on every string of at most MaxLen       *)
(* characters, and the default directive.                                  *)
(***************************************************************************)
Strings == UNION {[1..n -> Chars] : n \in 0..MaxLen}

ParseInit ==
    /\ raw \in Strings
    /\ parsed = default_sorting
    /\ called = "none"
    /\ SortIdle
    /\ RunIdle
    /\ LibIdle

\* raw.parse::<Sorting>()
FromStr ==
    /\ called = "none"
    /\ parsed' = from_str(raw)
    /\ called' = "from_str"
    /\ UNCHANGED << raw, sortVars, runVars, libVars >>

\* Sorting::default()
Default ==
    /\ called = "none"
    /\ parsed' = default_sorting
    /\ called' = "default"
    /\ UNCHANGED << raw, sortVars, runVars, libVars >>

ParseNext == FromStr \/ Default

SpecParse == ParseInit /\ [][ParseNext]_vars

(***************************************************************************)
(* Spec: one run of the command line tool.  The options are read-only      *)
(* after Args::parse(), so each is drawn where the run first reads it; the *)
(* answers of the system (mount table, overlay collection, metadata of the *)
(* path, writes of the CSV) are drawn where the run asks for them.         *)
(***************************************************************************)
\* the number of times the call e stands in the log l
Count(l, e) == Cardinality({i \in DOMAIN l : l[i] = e})

\* one write to the standard output: its kind and the ids of the mounts in it
Out(kind, rows) == [kind |-> kind, rows |-> rows]

\* the ids of a mount sequence
Ids(ms) == [i \in DOMAIN ms |-> ms[i].id]

\* the kinds of output that render mount records
Rendered == {"csv_header", "csv_row", "json", "table"}

\* normal::is_normal
is_normal(m) == m.normal

\* MountLustreExt::is_lustre
is_lustre(m, data) == lustre_info(m, data).some

\* Vec::retain with is_normal
retain_normal(ms) == SelectSeq(ms, is_normal)

\* Vec::retain with is_lustre
retain_lustre(ms, data) == SelectSeq(ms, LAMBDA m : is_lustre(m, data))

\* a retain that keeps the mounts of every device
retain_any_dev(ms, dev) == ms

\* Vec::retain with m.info.dev == dev
retain_dev(ms, dev) == SelectSeq(ms, LAMBDA m : m.dev = dev)

\* Filter::filter: the default filter keeps every mount; an expression keeps
\* the mounts it holds for (here: a size of at least min), or fails
filter(f, ms) ==
    IF ~f.some THEN [ok |-> TRUE, mounts |-> ms]
    ELSE IF f.fails THEN [ok |-> FALSE, mounts |-> << >>]
    ELSE [ok |-> TRUE,
          mounts |-> SelectSeq(ms, LAMBDA m : m.size # NoneInt /\ m.size >= f.min)]

\* LustreData::new
new_lustre_data == [is_available |-> FALSE, table |-> << >>]

\* the calls Sorting::sort makes
calls_of_sort(sorting_) ==
    << "sort_by" >> \o (IF sorting_.order = Desc THEN << "reverse" >> ELSE << >>)

\* the calls Sorting::sort_with_lustre makes
calls_of_sort_with_lustre(sorting_) ==
    (IF sorting_.col \in LustreCols THEN << "sort_by" >>
     ELSE << "self.sort" >> \o calls_of_sort(sorting_))
    \o (IF sorting_.order = Desc THEN << "reverse" >> ELSE << >>)

\* csv::print: the header line, then one line per mount; fail_at is the
\* write that fails (0: none), and the lines before it have been written
csv_lines(ms) ==
    << Out("csv_header", << >>) >> \o [i \in DOMAIN ms |-> Out("csv_row", << ms[i].id >>)]
csv_print(ms, fail_at) ==
    IF fail_at = 0 THEN [ok |-> TRUE, written |-> csv_lines(ms)]
    ELSE [ok |-> FALSE, written |-> Slice(csv_lines(ms), 1, fail_at - 1)]

\* the mount tables a run may read: the id of a mount is its place in the
\* table, its size equals its id, it is normal or not, on one of two devices
RunTables ==
    UNION {{ms \in [1..n -> [id : 1..n, fs : {1}, size : 1..n,
                              normal : BOOLEAN, dev : {1, 2}]] :
               \A i \in 1..n : ms[i].id = i /\ ms[i].size = i}
           : n \in 0..MaxRunMounts}

\* the overlay record of a Lustre mount in a run
RunInfo == [some |-> TRUE, uuid |-> 1, component_type |-> "Client", component_index |-> NoneInt]

\* what LustreData::collect_lustre_info may answer for a table of n mounts:
\* Err (the overlay stays unavailable), Ok without Lustre on the system, or
\* Ok with the overlay available and a record for some of the mounts
CollectOutcomes(n) ==
    {[ok |-> FALSE, data |-> new_lustre_data], [ok |-> TRUE, data |-> new_lustre_data]}
    \cup {[ok |-> TRUE, data |-> [is_available |-> TRUE, table |-> t]] :
             t \in [1..n -> {NoInfo, RunInfo}]}

\* the sort directives of a run: a base column and a column of the overlay,
\* under both orders
RunSortings == [col : {"Size", "LustreUuid"}, order : Orders]

\* the filters of a run: none, or an expression that may fail
RunFilters ==
    {[some |-> FALSE, min |-> 0, fails |-> FALSE]}
    \cup [some : {TRUE}, min : {2}, fails : BOOLEAN]

RunInit ==
    /\ args = ArgsUnread
    /\ pc = "start"
    /\ log = << >>
    /\ stdout = << >>
    /\ stderr = << >>
    /\ mounts = << >>
    /\ before = << >>
    /\ lustre_data = new_lustre_data
    /\ sorting = [col |-> default_sort_col, order |-> default_sort_order(default_sort_col)]
    /\ called = "none"
    /\ ParseIdle
    /\ LibIdle

\* lines 34-48: --version, --help and --list-cols end the run at once
Start ==
    /\ pc = "start"
    /\ \E version \in BOOLEAN, help \in BOOLEAN, list_cols \in BOOLEAN :
          /\ args' = [args EXCEPT !.version = version,
                                  !.help = ~version /\ help,
                                  !.list_cols = ~version /\ ~help /\ list_cols]
          /\ IF version
             THEN stdout' = Append(stdout, Out("version", << >>)) /\ pc' = "returned"
             ELSE IF help
             THEN /\ stdout' = stdout \o << Out("help", << >>), Out("csi_reset", << >>) >>
                  /\ pc' = "returned"
             ELSE IF list_cols
             THEN /\ stdout' = stdout \o << Out("list_cols", << >>), Out("csi_reset", << >>) >>
                  /\ pc' = "returned"
             ELSE stdout' = stdout /\ pc' = "read_mounts"
    /\ UNCHANGED << log, stderr, mounts, before, lustre_data, sorting, called, parseVars, libVars >>

\* lines 49-57: lfs_core::read_mounts
ReadMounts ==
    /\ pc = "read_mounts"
    /\ \/ /\ stderr' = Append(stderr, "Error reading mounts")
          /\ pc' = "returned"
          /\ UNCHANGED << mounts, before >>
       \/ \E table \in RunTables :
             /\ mounts' = table
             /\ before' = table
             /\ pc' = "retain_normal"
             /\ UNCHANGED stderr
    /\ UNCHANGED << args, log, stdout, lustre_data, sorting, called, parseVars, libVars >>

\* lines 58-60: without --all only the normal mounts are kept
RetainNormal ==
    /\ pc = "retain_normal"
    /\ \E all \in BOOLEAN :
          /\ args' = [args EXCEPT !.all = all]
          /\ mounts' = IF ~all THEN retain_normal(mounts) ELSE mounts
    /\ pc' = "collect_lustre"
    /\ UNCHANGED << log, stdout, stderr, before, lustre_data, sorting, called, parseVars, libVars >>

\* a collection that ends the run when it fails
CollectLustreOrReturn ==
    /\ pc = "collect_lustre"
    /\ \E lustre \in BOOLEAN, lustre_only \in BOOLEAN, lustre_components \in BOOLEAN :
          /\ args' = [args EXCEPT !.lustre = lustre, !.lustre_only = lustre_only,
                                  !.lustre_components = lustre_components]
          /\ IF lustre \/ lustre_only \/ lustre_components
             THEN \E answer \in CollectOutcomes(Len(before)) :
                     /\ log' = log \o << "collect_lustre_info" >>
                                   \o (IF answer.ok THEN << >> ELSE << "Err(collect_lustre_info)" >>)
                     /\ lustre_data' = answer.data
                     /\ stderr' = IF answer.ok THEN stderr
                                  ELSE Append(stderr, "Warning: Failed to collect Lustre information")
                     /\ pc' = IF answer.ok THEN "retain_lustre" ELSE "returned"
             ELSE /\ lustre_data' = new_lustre_data
                  /\ pc' = "retain_lustre"
                  /\ UNCHANGED << log, stderr >>
    /\ UNCHANGED << stdout, mounts, before, sorting, called, parseVars, libVars >>

\* a collection made whatever the options are
CollectLustreAlways ==
    /\ pc = "collect_lustre"
    /\ \E lustre \in BOOLEAN, lustre_only \in BOOLEAN, lustre_components \in BOOLEAN :
          /\ args' = [args EXCEPT !.lustre = lustre, !.lustre_only = lustre_only,
                                  !.lustre_components = lustre_components]
          /\ \E answer \in CollectOutcomes(Len(before)) :
                /\ log' = log \o << "collect_lustre_info" >>
                              \o (IF answer.ok THEN << >> ELSE << "Err(collect_lustre_info)" >>)
                /\ lustre_data' = answer.data
                /\ stderr' = IF answer.ok THEN stderr
                             ELSE Append(stderr, "Warning: Failed to collect Lustre information")
    /\ pc' = "retain_lustre"
    /\ UNCHANGED << stdout, mounts, before, sorting, called, parseVars, libVars >>

\* lines 62-67: the overlay is collected when a Lustre option is set; a
\* failure is a warning
CollectLustre ==
    /\ pc = "collect_lustre"
    /\ \E lustre \in BOOLEAN, lustre_only \in BOOLEAN, lustre_components \in BOOLEAN :
          /\ args' = [args EXCEPT !.lustre = lustre, !.lustre_only = lustre_only,
                                  !.lustre_components = lustre_components]
          /\ IF lustre \/ lustre_only \/ lustre_components
             THEN \E answer \in CollectOutcomes(Len(before)) :
                     /\ log' = log \o << "collect_lustre_info" >>
                                   \o (IF answer.ok THEN << >> ELSE << "Err(collect_lustre_info)" >>)
                     /\ lustre_data' = answer.data
                     /\ stderr' = IF answer.ok THEN stderr
                                  ELSE Append(stderr, "Warning: Failed to collect Lustre information")
             ELSE /\ lustre_data' = new_lustre_data
                  /\ UNCHANGED << log, stderr >>
    /\ pc' = "retain_lustre"
    /\ UNCHANGED << stdout, mounts, before, sorting, called, parseVars, libVars >>

\* lines 69-72: with --lustre-only only the Lustre mounts are kept
RetainLustre ==
    /\ pc = "retain_lustre"
    /\ mounts' = IF args.lustre_only THEN retain_lustre(mounts, lustre_data) ELSE mounts
    /\ pc' = "path"
    /\ UNCHANGED << args, log, stdout, stderr, before, lustre_data, sorting, called, parseVars, libVars >>

\* lines 74-84: with a path only the mounts of its device are kept; sys.dev
\* is the device fs::metadata answered for the path
RetainPath ==
    /\ pc = "path"
    /\ \E path \in BOOLEAN :
          /\ args' = [args EXCEPT !.path = path]
          /\ IF path
             THEN \/ /\ stderr' = Append(stderr, "Can't read path")
                     /\ pc' = "returned"
                     /\ UNCHANGED << mounts, sys >>
                  \/ \E dev \in {1, 2} :
                        /\ sys' = [sys EXCEPT !.dev = dev]
                        /\ mounts' = retain_dev(mounts, dev)
                        /\ pc' = "sort"
                        /\ UNCHANGED stderr
             ELSE /\ pc' = "sort"
                  /\ UNCHANGED << mounts, stderr, sys >>
    /\ UNCHANGED << log, stdout, before, lustre_data, sorting, called, parseVars, result >>

\* lines 85-89: the sort, with the overlay when it is available
SortMounts ==
    /\ pc = "sort"
    /\ \E directive \in RunSortings :
          /\ args' = [args EXCEPT !.sort = directive]
          /\ IF lustre_data.is_available
             THEN /\ mounts' = sort_with_lustre(directive, mounts, lustre_data)
                  /\ log' = log \o << "sort_with_lustre" >> \o calls_of_sort_with_lustre(directive)
             ELSE /\ mounts' = sort(directive, mounts)
                  /\ log' = log \o << "sort" >> \o calls_of_sort(directive)
    /\ pc' = "filter"
    /\ UNCHANGED << stdout, stderr, before, lustre_data, sorting, called, parseVars, libVars >>

\* a filter step that reports the failure of the filter and goes on
FilterMountsNoReturn ==
    /\ pc = "filter"
    /\ \E f \in RunFilters :
          /\ args' = [args EXCEPT !.filter = f]
          /\ log' = Append(log, "filter")
          /\ IF filter(f, mounts).ok
             THEN /\ mounts' = filter(f, mounts).mounts
                  /\ UNCHANGED stderr
             ELSE /\ stderr' = Append(stderr, "Error in filter evaluation")
                  /\ UNCHANGED mounts
    /\ pc' = "output"
    /\ UNCHANGED << stdout, before, lustre_data, sorting, called, parseVars, libVars >>

\* lines 90-96: the filter; from here on mounts is the filtered sequence
FilterMounts ==
    /\ pc = "filter"
    /\ \E f \in RunFilters :
          /\ args' = [args EXCEPT !.filter = f]
          /\ log' = Append(log, "filter")
          /\ IF filter(f, mounts).ok
             THEN /\ mounts' = filter(f, mounts).mounts
                  /\ pc' = "output"
                  /\ UNCHANGED stderr
             ELSE /\ stderr' = Append(stderr, "Error in filter evaluation")
                  /\ pc' = "returned"
                  /\ UNCHANGED mounts
    /\ UNCHANGED << stdout, before, lustre_data, sorting, called, parseVars, libVars >>

\* lines 97-113: CSV, JSON, the message for no mount, or the table
Output ==
    /\ pc = "output"
    /\ \E csv \in BOOLEAN, json \in BOOLEAN :
          /\ args' = [args EXCEPT !.csv = csv, !.json = json]
          /\ IF csv
             THEN \E fail_at \in 0..(Len(mounts) + 1) :
                     /\ stdout' = stdout \o csv_print(mounts, fail_at).written
                     /\ pc' = IF csv_print(mounts, fail_at).ok THEN "returned" ELSE "panicked"
                     /\ stderr' = IF csv_print(mounts, fail_at).ok THEN stderr
                                  ELSE Append(stderr, "writing csv failed")
             ELSE /\ stdout' =
                        IF json THEN Append(stdout, Out("json", Ids(mounts)))
                        ELSE IF mounts = << >> THEN Append(stdout, Out("no mount to display", << >>))
                        ELSE stdout \o << Out("table", Ids(mounts)), Out("csi_reset", << >>) >>
                  /\ pc' = "returned"
                  /\ UNCHANGED stderr
    /\ UNCHANGED << log, mounts, before, lustre_data, sorting, called, parseVars, libVars >>

Next ==
    \/ Start
    \/ ReadMounts
    \/ RetainNormal
    \/ CollectLustre
    \/ RetainLustre
    \/ RetainPath
    \/ SortMounts
    \/ FilterMounts
    \/ Output

Spec == RunInit /\ [][Next]_vars

(***************************************************************************)
(* SpecLib: the library calls get_mounts and get_filtered_mounts as        *)
(* functions of the options and of what the system answers.                *)
(***************************************************************************)
\* the Err of a library call
LibErr == [ok |-> FALSE, mounts |-> << >>]

\* get_mounts (src/lib.rs)
get_mounts(a, system) ==
    IF ~system.read_ok THEN LibErr
    ELSE LET normal == IF ~a.all THEN retain_normal(system.table) ELSE system.table
         IN  IF a.path /\ ~system.metadata_ok THEN LibErr
             ELSE LET kept == IF a.path THEN retain_dev(normal, system.dev) ELSE normal
                  IN  [ok |-> TRUE, mounts |-> sort(a.sort, kept)]

\* a get_filtered_mounts that filters with the expression of the default
\* filter when none is given
get_filtered_mounts_always(a, system) ==
    LET got == get_mounts(a, system)
        filtered == filter([a.filter EXCEPT !.some = TRUE], got.mounts)
    IN  IF ~got.ok THEN got
        ELSE IF ~filtered.ok THEN LibErr
        ELSE [ok |-> TRUE, mounts |-> filtered.mounts]

\* get_filtered_mounts (src/lib.rs)
get_filtered_mounts(a, system) ==
    LET got == get_mounts(a, system)
    IN  IF ~got.ok THEN got
        ELSE IF a.filter.some
        THEN LET filtered == filter(a.filter, got.mounts)
             IN  IF ~filtered.ok THEN LibErr
                 ELSE [ok |-> TRUE, mounts |-> filtered.mounts]
        ELSE got

\* the mount tables of the library calls
LibTables ==
    UNION {{ms \in [1..n -> [id : 1..n, fs : {1}, size : {NoneInt} \cup (1..MaxKey),
                              normal : BOOLEAN, dev : {1}]] :
               \A i \in 1..n : ms[i].id = i}
           : n \in 0..MaxRunMounts}

\* what the system may answer
LibSystems ==
    {[read_ok |-> FALSE, table |-> << >>, metadata_ok |-> TRUE, dev |-> 1]}
    \cup [read_ok : {TRUE}, table : LibTables, metadata_ok : {TRUE}, dev : {1, 2}]
    \cup [read_ok : {TRUE}, table : LibTables, metadata_ok : {FALSE}, dev : {1}]

\* the options the library calls read
LibArgs ==
    {[ArgsUnread EXCEPT !.all = all, !.path = path, !.sort = directive, !.filter = f] :
        all \in BOOLEAN, path \in BOOLEAN,
        directive \in [col : BaseCols, order : Orders],
        f \in {[some |-> FALSE, min |-> 0, fails |-> FALSE]}
              \cup [some : {TRUE}, min : 1..MaxKey, fails : {FALSE}]
              \cup {[some |-> TRUE, min |-> 1, fails |-> TRUE]}}

LibInit ==
    /\ args \in LibArgs
    /\ sys \in LibSystems
    /\ result = [ok |-> TRUE, mounts |-> << >>]
    /\ called = "none"
    /\ pc = "idle"
    /\ log = << >>
    /\ stdout = << >>
    /\ stderr = << >>
    /\ SortIdle
    /\ ParseIdle

\* get_mounts(&args)
GetMounts ==
    /\ called = "none"
    /\ result' = get_mounts(args, sys)
    /\ called' = "get_mounts"
    /\ UNCHANGED << sys, sortVars, parseVars, runVars >>

\* get_filtered_mounts(&args)
GetFilteredMounts ==
    /\ called = "none"
    /\ result' = get_filtered_mounts(args, sys)
    /\ called' = "get_filtered_mounts"
    /\ UNCHANGED << sys, sortVars, parseVars, runVars >>

LibNext == GetMounts \/ GetFilteredMounts

SpecLib == LibInit /\ [][LibNext]_vars

(***************************************************************************)
(* SpecBuilder: an ArgsBuilder.  args is the Args the builder holds, log   *)
(* the setter calls made on it so far, result the Args build() returned.   *)
(***************************************************************************)
\* Option::None and Option::Some of a filter or a path
None == [some |-> FALSE, value |-> ""]
Some(v) == [some |-> TRUE, value |-> v]

\* ArgsBuilder::new
BuilderNew ==
    [help |-> FALSE,
     version |-> FALSE,
     all |-> FALSE,
     color |-> "Auto",
     ascii |-> FALSE,
     remote_stats |-> "Auto",
     list_cols |-> FALSE,
     cols |-> "Cols::default()",
     filter |-> None,
     sort |-> [col |-> default_sorting.col, order |-> default_sorting.order],
     units |-> "Units::default()",
     json |-> FALSE,
     csv |-> FALSE,
     csv_separator |-> ",",
     path |-> None]

\* the setters of ArgsBuilder; each is named after the field it sets
Setters == {"all", "json", "csv", "filter", "sort", "units", "path", "cols"}

\* the values a setter is called with
ValuesOf(setter) ==
    CASE setter \in {"all", "json", "csv"} -> BOOLEAN
      [] setter = "filter" -> {"size>1G", "use>50%"}
      [] setter = "sort" -> [col : {"Filesystem"}, order : Orders]
      [] setter = "units" -> {"Units::default()", "Units::Binary"}
      [] setter = "path" -> {"/", "/home"}
      [] setter = "cols" -> {"Cols::default()", "fs+size"}

\* a setter that starts again from new() before it sets its field
set_from_new(setter, a, v) ==
    IF setter \in {"filter", "path"}
    THEN [BuilderNew EXCEPT ![setter] = Some(v)]
    ELSE [BuilderNew EXCEPT ![setter] = v]

\* ArgsBuilder::all, json, csv, filter, sort, units, path, cols: the Args
\* of the builder after the setter has been called with v
set(setter, a, v) ==
    CASE setter = "all" -> [a EXCEPT !.all = v]
      [] setter = "json" -> [a EXCEPT !.json = v]
      [] setter = "csv" -> [a EXCEPT !.csv = v]
      [] setter = "filter" -> [a EXCEPT !.filter = Some(v)]
      [] setter = "sort" -> [a EXCEPT !.sort = v]
      [] setter = "units" -> [a EXCEPT !.units = v]
      [] setter = "path" -> [a EXCEPT !.path = Some(v)]
      [] setter = "cols" -> [a EXCEPT !.cols = v]

BuilderInit ==
    /\ args = BuilderNew
    /\ log = << >>
    /\ called = "none"
    /\ result = [ok |-> TRUE, mounts |-> << >>]
    /\ sys = [read_ok |-> TRUE, table |-> << >>, metadata_ok |-> TRUE, dev |-> 1]
    /\ pc = "idle"
    /\ stdout = << >>
    /\ stderr = << >>
    /\ SortIdle
    /\ ParseIdle

\* builder.all(v), builder.json(v), ... : one setter call
CallSetter ==
    /\ called = "none"
    /\ Len(log) < MaxCalls
    /\ \E setter \in Setters :
          \E v \in ValuesOf(setter) :
             /\ args' = set(setter, args, v)
             /\ log' = Append(log, [setter |-> setter, value |-> v])
    /\ UNCHANGED << called, pc, stdout, stderr, sortVars, parseVars, libVars >>

\* builder.build()
Build ==
    /\ called = "none"
    /\ result' = args
    /\ called' = "build"
    /\ UNCHANGED << sys, sortVars, parseVars, runVars >>

BuilderNext == CallSetter \/ Build

SpecBuilder == BuilderInit /\ [][BuilderNext]_vars

(***************************************************************************)
(* SpecEntry: the entry points of the library as functions of the options  *)
(* and of what the system answers.  An outcome holds what the call         *)
(* returned, the output branches it called (log), the records it handed to *)
(* the branch, what it wrote, and how it ended.                            *)
(***************************************************************************)
Outcome(ok, returned, calls, handed, out, err, end) ==
    [ok |-> ok, mounts |-> returned, log |-> calls, handed |-> handed,
     stdout |-> out, stderr |-> err, end |-> end]

\* table::print (src/table.rs): nothing is written when args.cols is empty
table_print(ms, a) == IF a.cols_empty THEN << >> ELSE << Out("table", Ids(ms)) >>

\* print_generic_csv (src/table.rs): the header line, then a line per mount
print_generic_csv(ms) == csv_lines(ms)

\* print_generic_json (src/table.rs): one document with all mounts
print_generic_json(ms) == << Out("json", Ids(ms)) >>

\* print_generic_table (src/lib.rs)
print_generic_table(ms, a) ==
    IF a.csv
    THEN Outcome(TRUE, << >>, << "print_generic_csv" >>, ms, print_generic_csv(ms), << >>, "returned")
    ELSE IF a.json
    THEN Outcome(TRUE, << >>, << "print_generic_json" >>, ms, print_generic_json(ms), << >>, "returned")
    ELSE IF ms = << >>
    THEN Outcome(TRUE, << >>, << "no mounts to display" >>, ms,
                 << Out("no mounts to display", << >>) >>, << >>, "returned")
    ELSE Outcome(TRUE, << >>, << >>, << >>, << >>, << >>, "returned")

\* print_output (src/lib.rs)
print_output(ms, a, system) ==
    IF a.csv
    THEN LET printed == csv_print(ms, system.csv_fail_at)
         IN  Outcome(printed.ok, << >>, << "csv::print" >>, ms, printed.written, << >>, "returned")
    ELSE IF a.json
    THEN Outcome(TRUE, << >>, << "json" >>, ms, << Out("json", Ids(ms)) >>, << >>, "returned")
    ELSE IF ms = << >>
    THEN Outcome(TRUE, << >>, << "no mount to display" >>, ms,
                 << Out("no mount to display", << >>) >>, << >>, "returned")
    ELSE Outcome(TRUE, << >>, << "table::print" >>, ms, table_print(ms, a), << >>, "returned")

\* run_dysk (src/lib.rs)
run_dysk(a, system) ==
    IF a.version
    THEN Outcome(TRUE, << >>, << "version" >>, << >>, << Out("version", << >>) >>, << >>, "returned")
    ELSE IF a.help
    THEN Outcome(TRUE, << >>, << "help" >>, << >>, << Out("help", << >>) >>, << >>, "returned")
    ELSE IF a.list_cols
    THEN Outcome(TRUE, << >>, << "list_cols" >>, << >>, << Out("list_cols", << >>) >>, << >>, "returned")
    ELSE LET got == get_filtered_mounts(a, system)
         IN  IF ~got.ok
             THEN Outcome(FALSE, << >>, << >>, << >>, << >>, << >>, "returned")
             ELSE LET printed == print_output(got.mounts, a, system)
                  IN  [printed EXCEPT !.mounts = IF printed.ok THEN got.mounts ELSE << >>]

\* the output of run, from the sorted mounts and the filtered ones
run_output(sorted, mount_refs, a, system) ==
    IF a.csv
    THEN LET printed == csv_print(mount_refs, system.csv_fail_at)
         IN  Outcome(TRUE, << >>, << "csv::print" >>, mount_refs, printed.written,
                     IF printed.ok THEN << >> ELSE << "writing csv failed" >>,
                     IF printed.ok THEN "returned" ELSE "panicked")
    ELSE IF a.json
    THEN Outcome(TRUE, << >>, << "json" >>, mount_refs,
                 << Out("json", Ids(mount_refs)) >>, << >>, "returned")
    ELSE IF sorted = << >>
    THEN Outcome(TRUE, << >>, << "no mount to display" >>, mount_refs,
                 << Out("no mount to display", << >>) >>, << >>, "returned")
    ELSE Outcome(TRUE, << >>, << "table::print" >>, mount_refs,
                 table_print(mount_refs, a) \o << Out("csi_reset", << >>) >>, << >>, "returned")

\* run (src/lib.rs)
run(a, system) ==
    IF a.version
    THEN Outcome(TRUE, << >>, << "version" >>, << >>, << Out("version", << >>) >>, << >>, "returned")
    ELSE IF a.help
    THEN Outcome(TRUE, << >>, << "help" >>, << >>,
                 << Out("help", << >>), Out("csi_reset", << >>) >>, << >>, "returned")
    ELSE IF a.list_cols
    THEN Outcome(TRUE, << >>, << "list_cols" >>, << >>,
                 << Out("list_cols", << >>), Out("csi_reset", << >>) >>, << >>, "returned")
    ELSE IF ~system.read_ok
    THEN Outcome(TRUE, << >>, << >>, << >>, << >>, << "Error reading mounts" >>, "returned")
    ELSE LET normal == IF ~a.all THEN retain_normal(system.table) ELSE system.table
         IN  IF a.path /\ ~system.metadata_ok
             THEN Outcome(TRUE, << >>, << >>, << >>, << >>, << "Can't read path" >>, "returned")
             ELSE LET kept == IF a.path THEN retain_dev(normal, system.dev) ELSE normal
                      sorted == sort(a.sort, kept)
                      filtered == filter(a.filter, sorted)
                  IN  IF ~filtered.ok
                      THEN Outcome(TRUE, << >>, << >>, << >>, << >>,
                                   << "Error in filter evaluation" >>, "returned")
                      ELSE run_output(sorted, filtered.mounts, a, system)

\* the mount tables of the entry points
EntryTables ==
    UNION {{ms \in [1..n -> [id : 1..n, fs : {1}, size : 1..n,
                              normal : BOOLEAN, dev : {1}]] :
               \A i \in 1..n : ms[i].id = i /\ ms[i].size = i}
           : n \in 0..MaxRunMounts}

\* what the system may answer; csv_fail_at is the write of the CSV that
\* fails: none, or the one of the header line
EntrySystems ==
    [read_ok : {FALSE}, table : {<< >>}, metadata_ok : {TRUE}, dev : {1}, csv_fail_at : {0}]
    \cup [read_ok : {TRUE}, table : EntryTables, metadata_ok : {TRUE}, dev : {1, 2},
          csv_fail_at : {0, 1}]
    \cup [read_ok : {TRUE}, table : EntryTables, metadata_ok : {FALSE}, dev : {1},
          csv_fail_at : {0}]

\* the options the entry points read
EntryArgs ==
    [version : BOOLEAN, help : BOOLEAN, list_cols : BOOLEAN, all : BOOLEAN,
     path : BOOLEAN,
     sort : [col : {"Size"}, order : Orders],
     filter : RunFilters,
     csv : BOOLEAN, json : BOOLEAN, cols_empty : BOOLEAN]

EntryInit ==
    /\ args \in EntryArgs
    /\ sys \in EntrySystems
    /\ result = [ok |-> TRUE, mounts |-> << >>]
    /\ called = "none"
    /\ pc = "idle"
    /\ log = << >>
    /\ stdout = << >>
    /\ stderr = << >>
    /\ mounts = << >>
    /\ before = << >>
    /\ sorting = [col |-> default_sort_col, order |-> default_sort_order(default_sort_col)]
    /\ lustre_data = [is_available |-> FALSE, table |-> << >>]
    /\ ParseIdle

\* the state after an entry point has been called with the given outcome:
\* mounts is the sequence handed to the output branch
Called(name, outcome) ==
    /\ called = "none"
    /\ called' = name
    /\ result' = [ok |-> outcome.ok, mounts |-> outcome.mounts]
    /\ log' = outcome.log
    /\ mounts' = outcome.handed
    /\ stdout' = outcome.stdout
    /\ stderr' = outcome.stderr
    /\ pc' = outcome.end
    /\ UNCHANGED << args, sys, before, sorting, lustre_data, parseVars >>

\* run_dysk(args)
RunDysk == Called("run_dysk", run_dysk(args, sys))

\* run(), with the options Args::parse() gave
Run == Called("run", run(args, sys))

\* print_output(&mounts, &args) on the mount table as it is
PrintOutput == Called("print_output", print_output(sys.table, args, sys))

\* print_generic_table(&mounts, &args) on the mount table as it is
PrintGenericTable == Called("print_generic_table", print_generic_table(sys.table, args))

EntryNext == RunDysk \/ Run \/ PrintOutput \/ PrintGenericTable

SpecEntry == EntryInit /\ [][EntryNext]_vars

(***************************************************************************)
(* Claims on the two sorts (SpecSort).                                     *)
(***************************************************************************)
\* whether the overlay has data for the mount
HasInfo(m) == lustre_info(m, lustre_data).some

\* C1: for every mount sequence and every base column, sort_with_lustre
\* leaves the sequence in the order that sort leaves it in, under Asc and
\* under Desc.
C1_OverlayKeepsBaseSort ==
    (called = "sort_with_lustre" /\ sorting.col \in BaseCols)
        => mounts = sort(sorting, before)

\* the records without overlay data stand behind all records with data
NoDataLast(s) ==
    \A i, j \in 1..Len(s) : (~HasInfo(s[i]) /\ HasInfo(s[j])) => j < i
\* the records without overlay data stand before all records with data
NoDataFirst(s) ==
    \A i, j \in 1..Len(s) : (~HasInfo(s[i]) /\ HasInfo(s[j])) => i < j
\* the records without overlay data stand in their input order (the id of a
\* mount is its place in the input)
NoDataInInputOrder(s) ==
    \A i, j \in 1..Len(s) :
        (i < j /\ ~HasInfo(s[i]) /\ ~HasInfo(s[j])) => s[i].id < s[j].id
NoDataInReverseInputOrder(s) ==
    \A i, j \in 1..Len(s) :
        (i < j /\ ~HasInfo(s[i]) /\ ~HasInfo(s[j])) => s[i].id > s[j].id

\* C2 as stated: after sort_with_lustre by a column of the overlay, under
\* any order, every record without overlay data stands behind all records
\* with data, and the records without data keep their input order.
C2_NoDataLastWhateverOrder ==
    (called = "sort_with_lustre" /\ sorting.col \in LustreCols)
        => (NoDataLast(mounts) /\ NoDataInInputOrder(mounts))

\* C2 amended: after sort_with_lustre by a column of the overlay, under Asc
\* every record without overlay data stands behind all records with data and
\* the records without data keep their input order; under Desc the final
\* reversal puts them before all records with data, in the reverse of their
\* input order.
C2_NoDataLastUnderAsc ==
    (called = "sort_with_lustre" /\ sorting.col \in LustreCols)
        => IF sorting.order = Asc
           THEN NoDataLast(mounts) /\ NoDataInInputOrder(mounts)
           ELSE NoDataFirst(mounts) /\ NoDataInReverseInputOrder(mounts)

\* an ascending sort by an overlay column has moved a record with data in
\* front of two records without data that came before it in the input
C2_Witness ==
    /\ called = "sort_with_lustre"
    /\ sorting.col \in LustreCols
    /\ sorting.order = Asc
    /\ Len(before) >= 3
    /\ ~HasInfo(before[1]) /\ ~HasInfo(before[2]) /\ HasInfo(before[3])
    /\ mounts[1] = before[3]

\* C3: for every mount sequence and every column, sort under Desc leaves
\* exactly the reverse of what sort under Asc leaves on the same input, so
\* records whose keys compare equal stand in the reverse of their input order.
C3_DescIsReverseOfAsc ==
    (called = "sort" /\ sorting.order = Desc)
        => /\ mounts = Reverse(sort([col |-> sorting.col, order |-> Asc], before))
           /\ \A i, j \in 1..Len(mounts) :
                 (i < j /\ comparator(sorting.col, mounts[i], mounts[j]) = "Equal")
                     => mounts[i].id > mounts[j].id

\* a descending sort of a sequence with two equal keys and a different one
C3_Witness ==
    /\ called = "sort"
    /\ sorting.order = Desc
    /\ sorting.col \in BaseCols
    /\ \E i, j, k \in 1..Len(mounts) :
          /\ i < j
          /\ comparator(sorting.col, mounts[i], mounts[j]) = "Equal"
          /\ comparator(sorting.col, mounts[i], mounts[k]) # "Equal"

(***************************************************************************)
(* Claims on the directive parser (SpecParse).                             *)
(***************************************************************************)
\* the places of raw that hold whitespace or '-'
SeparatorPlaces == {i \in 1..Len(raw) : raw[i] \in {" ", "-"}}

\* C8: from_str cuts its input at the first character that is whitespace or
\* '-': the column name is all the text before it, the order token all the
\* text behind that one character, and without such a character the whole
\* input is the column name; the name handed to the column parser never
\* holds '-' or whitespace, and it alone decides the column.
C8_SplitAtFirstSeparator ==
    called = "from_str" =>
        /\ IF SeparatorPlaces = {}
           THEN parsed.s_col = raw /\ ~parsed.has_order
           ELSE \E i \in SeparatorPlaces :
                  /\ \A j \in SeparatorPlaces : i <= j
                  /\ parsed.s_col = Slice(raw, 1, i - 1)
                  /\ parsed.has_order
                  /\ parsed.s_order = Slice(raw, i + 1, Len(raw))
        /\ \A k \in 1..Len(parsed.s_col) : parsed.s_col[k] \notin {" ", "-"}
        /\ parsed.ok => (ColFromStr(parsed.s_col).ok /\ parsed.col = ColFromStr(parsed.s_col).col)

\* a directive with a column, one separator and an order has been parsed
C8_Witness ==
    /\ called = "from_str"
    /\ parsed.ok
    /\ parsed.has_order
    /\ Len(parsed.s_col) = 2
    /\ Len(parsed.s_order) = 1
    /\ Len(raw) = 4

\* C9: a directive that carries no order (a text without separator that
\* names a column, or Sorting::default()) has the default_sort_order of its
\* own column; only a directive with an order token has another order.
C9_AbsentOrderIsDefault ==
    /\ (called = "from_str" /\ parsed.ok /\ SeparatorPlaces = {})
          => parsed.order = default_sort_order(parsed.col)
    /\ called = "default"
          => (parsed.col = default_sort_col /\ parsed.order = default_sort_order(parsed.col))
    /\ (called \in {"from_str", "default"} /\ parsed.ok
            /\ parsed.order # default_sort_order(parsed.col))
          => (called = "from_str" /\ SeparatorPlaces # {} /\ parsed.has_order)

\* a text without separator has been parsed into a column whose default
\* order is Desc
C9_Witness ==
    /\ called = "from_str"
    /\ parsed.ok
    /\ SeparatorPlaces = {}
    /\ parsed.order = Desc

(***************************************************************************)
(* Claims on a run of the command line tool (Spec).                        *)
(***************************************************************************)
Ended == pc \in {"returned", "panicked"}
Said(message) == \E i \in DOMAIN stderr : stderr[i] = message
HasRendered == \E i \in DOMAIN stdout : stdout[i].kind \in Rendered
SortCalls == {"sort", "sort_with_lustre", "self.sort", "sort_by", "reverse"}
CollectFailed == Count(log, "Err(collect_lustre_info)") > 0

\* C4: in a run that has reached the filter, the sort directive has been
\* applied exactly once: the run has called exactly one of sort and
\* sort_with_lustre, once, the sequence has been sorted once and reversed
\* once for Desc and not at all for Asc, and all of that came before the
\* filter.
C4_SortAppliedOnceBeforeFilter ==
    (pc = "filter" \/ Count(log, "filter") > 0) =>
        /\ Count(log, "sort") + Count(log, "sort_with_lustre") = 1
        /\ Count(log, "sort_by") = 1
        /\ Count(log, "reverse") = (IF args.sort.order = Desc THEN 1 ELSE 0)
        /\ \A i, j \in DOMAIN log : (log[i] \in SortCalls /\ log[j] = "filter") => i < j

\* C5: a failed overlay collection does not end the run: the warning is
\* written, the run goes on, and a run that has ended has either sorted,
\* filtered and written its output or met another failure.
C5_CollectFailureIsAWarning ==
    CollectFailed =>
        /\ Said("Warning: Failed to collect Lustre information")
        /\ pc # "collect_lustre"
        /\ Ended =>
              \/ Said("Can't read path")
              \/ Said("Error in filter evaluation")
              \/ /\ Count(log, "sort_by") = 1
                 /\ Count(log, "filter") = 1
                 /\ stdout # << >> \/ Said("writing csv failed")

\* the overlay collection has failed and the run has printed the table
C5_Witness ==
    /\ CollectFailed
    /\ pc = "returned"
    /\ \E i \in DOMAIN stdout : stdout[i].kind = "table"

C7_CollectOnceBeforeSort ==
    /\ Count(log, "collect_lustre_info") <= 1
    /\ Count(log, "collect_lustre_info") = 1
          => (args.lustre \/ args.lustre_only \/ args.lustre_components)
    /\ \A i, j \in DOMAIN log :
          (log[i] = "collect_lustre_info" /\ log[j] \in SortCalls) => i < j

\* the overlay has been collected for lustre_components alone, and the
\* mounts have been sorted with it
C7_Witness ==
    /\ Count(log, "collect_lustre_info") = 1
    /\ args.lustre_components /\ ~args.lustre /\ ~args.lustre_only
    /\ Count(log, "sort_with_lustre") = 1

(***************************************************************************)
(* Claims on the library calls (SpecLib).                                  *)
(***************************************************************************)
\* C10: without a filter expression get_filtered_mounts returns exactly what
\* get_mounts returns for the same options and system: the same records in
\* the same sorted order (or the same error).
C10_NoFilterIsIdentity ==
    (called = "get_filtered_mounts" /\ ~args.filter.some)
        => result = get_mounts(args, sys)

\* get_filtered_mounts has returned, without a filter, two mounts of which
\* one has no stats, in another order than the table holds them
C10_Witness ==
    /\ called = "get_filtered_mounts"
    /\ ~args.filter.some
    /\ result.ok
    /\ Len(result.mounts) = 2
    /\ \E i \in 1..2 : result.mounts[i].size = NoneInt
    /\ result.mounts # sys.table

(***************************************************************************)
(* Claims on the ArgsBuilder (SpecBuilder).                                *)
(***************************************************************************)
\* the fields of Args
ArgsFields == DOMAIN BuilderNew

\* the places of the log at which the setter of the field was called
CallsOf(field) == {i \in DOMAIN log : log[i].setter = field}

\* the value the last call of the setter of the field has left in the field
LastSet(field) ==
    LET last == CHOOSE i \in CallsOf(field) : \A j \in CallsOf(field) : j <= i
    IN  IF field \in {"filter", "path"} THEN Some(log[last].value) ELSE log[last].value

\* C11: after any sequence of setter calls from ArgsBuilder::new(), build()
\* returns Args in which every field whose setter was called holds the value
\* of the last call of that setter, and every other field holds its value of
\* new(): the flags false, no filter, no path, the default sort, units and
\* columns, and ',' as the separator of the CSV.
C11_BuilderFrame ==
    called = "build" =>
        /\ DOMAIN result = ArgsFields
        /\ \A field \in ArgsFields :
              IF CallsOf(field) # {}
              THEN result[field] = LastSet(field)
              ELSE result[field] = BuilderNew[field]
        /\ \A field \in ArgsFields \ Setters : result[field] = BuilderNew[field]
        /\ \A field \in {"help", "version", "all", "ascii", "list_cols", "json", "csv"} :
              CallsOf(field) = {} => result[field] = FALSE
        /\ CallsOf("filter") = {} => ~result.filter.some
        /\ CallsOf("sort") = {} =>
              (result.sort.col = default_sort_col
                 /\ result.sort.order = default_sort_order(default_sort_col))
        /\ result.csv_separator = ","

\* build() after json(TRUE), all(TRUE) and json(FALSE): the last call of
\* json decides, and all is kept
C11_Witness ==
    /\ called = "build"
    /\ Len(log) = 3
    /\ log[1].setter = "json" /\ log[1].value = TRUE
    /\ log[2].setter = "all" /\ log[2].value = TRUE
    /\ log[3].setter = "json" /\ log[3].value = FALSE
    /\ result.all
    /\ ~result.json

(***************************************************************************)
(* Claims on the entry points of the library (SpecEntry).                  *)
(***************************************************************************)
\* C12: for the same options and the same answers of the system, run_dysk
\* calls the output branch that run calls (version, help, column list, CSV,
\* JSON, table, or the message for no mount) and hands it the same records
\* in the same order.
C12_RunDyskReplicatesRun ==
    called = "run_dysk" =>
        /\ log = run(args, sys).log
        /\ mounts = run(args, sys).handed

\* the call has reached its choice of an output branch for mount records
ReachedOutput ==
    \/ called = "print_output"
    \/ /\ called \in {"run", "run_dysk"}
       /\ log # << >>
       /\ log[1] \notin {"version", "help", "list_cols"}

\* C13: when an entry point of the library (run, run_dysk, print_output) has
\* no record left after the filter and neither CSV nor JSON is selected, it
\* prints the message for no mount and does not call the table renderer.
C13_NoMountMessageWhenEmpty ==
    (ReachedOutput /\ mounts = << >> /\ ~args.csv /\ ~args.json) =>
        /\ log = << "no mount to display" >>
        /\ stdout = << Out("no mount to display", << >>) >>

\* C16: print_generic_table writes something for every input: the CSV lines
\* when csv is set, else the JSON document when json is set, else the
\* message for no mounts when the sequence is empty, else a table of the
\* mounts; it never returns having written nothing.
C16_GenericTableAlwaysPrints ==
    called = "print_generic_table" =>
        /\ result.ok
        /\ stdout # << >>
        /\ IF args.csv THEN stdout = print_generic_csv(sys.table)
           ELSE IF args.json THEN stdout = print_generic_json(sys.table)
           ELSE IF sys.table = << >> THEN stdout = << Out("no mounts to display", << >>) >>
           ELSE \E i \in DOMAIN stdout : stdout[i].kind = "table"

(***************************************************************************)
(* Claims on the records a run renders (Spec).                             *)
(***************************************************************************)
\* the record satisfies all retention conditions that the options of the
\* run make active
Retained(m) ==
    /\ args.all \/ is_normal(m)
    /\ args.lustre_only => is_lustre(m, lustre_data)
    /\ args.path => m.dev = sys.dev
    /\ filter(args.filter, << m >>).mounts = << m >>

\* the ids of the records of the mount table that satisfy them
RetainedIds == {before[i].id : i \in {k \in DOMAIN before : Retained(before[k])}}

\* the places of the standard output at which a record is rendered
RenderedPlaces ==
    {p \in (DOMAIN stdout) \X (1..(MaxRunMounts + 1)) :
        /\ stdout[p[1]].kind \in Rendered
        /\ p[2] \in DOMAIN stdout[p[1]].rows}
RenderedIds == {stdout[p[1]].rows[p[2]] : p \in RenderedPlaces}

\* C14: the records a run hands to a renderer (CSV, JSON, table) are
\* exactly the records of the mount table that satisfy all active retention
\* conditions: is_normal unless all is set, is_lustre when lustre_only is
\* set, the device of the path when a path is given, and the filter.  No
\* record failing one of them is ever rendered, a run that returns after it
\* rendered has rendered each of the others once, and the message for no
\* mount is printed only when there is none.
C14_RenderedAreTheRetained ==
    /\ HasRendered => RenderedIds \subseteq RetainedIds
    /\ (HasRendered /\ pc = "returned") =>
          /\ RenderedIds = RetainedIds
          /\ Cardinality(RenderedPlaces) = Cardinality(RetainedIds)
          /\ {mounts[i].id : i \in DOMAIN mounts} = RetainedIds
    /\ (\E i \in DOMAIN stdout : stdout[i].kind = "no mount to display")
          => RetainedIds = {}

\* a run with all four conditions active has read two mounts and rendered
\* the second of them alone in the table
C14_Witness ==
    /\ pc = "returned"
    /\ ~args.all /\ args.lustre_only /\ args.path /\ args.filter.some
    /\ Len(before) = 2
    /\ \E i \in DOMAIN stdout : stdout[i].kind = "table"
    /\ RenderedIds = {2}

(***************************************************************************)
(* Claims on the sorts as reorderings (SpecSort).                          *)
(***************************************************************************)
\* the comparisons of a sort by the closure of sort_with_lustre reach the
\* arm unreachable!() for some pair of records
ReachesUnreachable ==
    /\ called = "sort_with_lustre"
    /\ sorting.col \in LustreCols
    /\ \E i, j \in DOMAIN before :
          Compare("lustre", sorting.col, lustre_data, before[i], before[j]) = "unreachable"

\* C15: sort and sort_with_lustre only reorder: for every column, order and
\* content of the overlay the sequence after the call has the length of the
\* sequence before it and holds each of its records exactly once, and no
\* comparison of the call reaches the arm unreachable!().
C15_SortsOnlyReorder ==
    called \in {"sort", "sort_with_lustre"} =>
        /\ Len(mounts) = Len(before)
        /\ \A i \in DOMAIN before :
              Cardinality({j \in DOMAIN mounts : mounts[j] = before[i]}) = 1
        /\ ~ReachesUnreachable

\* a sort by a column of the overlay, with data for some records only, has
\* moved every one of at least three records to another place
C15_Witness ==
    /\ called = "sort_with_lustre"
    /\ sorting.col \in LustreCols
    /\ Len(before) >= 3
    /\ \E i, j \in DOMAIN before : HasInfo(before[i]) /\ ~HasInfo(before[j])
    /\ \A i \in DOMAIN before : mounts[i] # before[i]

=============================================================================
